---- MODULE Spec2Model ----
(***************************************************************************)
(* A model of the astrology-booking backend: the signup and login routes   *)
(* of server.js, the auth middleware and the appointments router.          *)
(*                                                                         *)
(* Conventions.  A JavaScript string is a tuple of one-character strings;  *)
(* the value undefined is the tuple Undefined.  Time is counted in ticks   *)
(* of UTC, TicksPerDay of them to the day.  A handler is cut at its        *)
(* storage await: the Receive action runs the middleware and the           *)
(* synchronous part, the Apply action is the storage command together with *)
(* the response that follows it.                                           *)
(***************************************************************************)
EXTENDS Integers, Sequences, FiniteSets, Bags, TLC

VARIABLES
    env,           \* process.env: [JWT_SECRET, TZ], fixed at process start
    now,           \* the clock, in ticks
    users,         \* the User collection
    signups,       \* signups between their findOne and their save (a bag)
    nextUserId,    \* the next ObjectId a new User() draws
    tokens,        \* history: every token a signup or a login has returned
    appointments,  \* the Appointment collection
    pending,       \* storage commands of the appointments router in flight (a bag)
    nextId,        \* the next ObjectId a new Appointment() draws
    res,           \* what the last step sent: a response with its request's context, or NoResp
    createdBy,     \* history: appointment id -> the identity whose request saved it
    cancelled      \* history: ids of the appointments a cancel has deleted

vars == <<env, now, users, signups, nextUserId, tokens, appointments, pending,
          nextId, res, createdBy, cancelled>>

authVars == <<users, signups, nextUserId, tokens>>
apptVars == <<appointments, pending, nextId, createdBy, cancelled>>

----------------------------------------------------------------------------
(* Bounds of the model *)

TicksPerDay == 2
MaxTicks == 1
MaxSignups == 2
MaxTokens == 2
MaxAppointments == 2
MaxPending == 2
MaxRaced == 1
MaxGateBookings == 1

----------------------------------------------------------------------------
(* JavaScript values *)

Undefined == <<"undefined">>

Truthy(v) == v # Undefined /\ v # <<>>

Rep(c, n) == [i \in 1..n |-> c]

Alice == <<"a", "l">>
Bob == <<"b", "o">>
MailA == <<"a", "@", "x", ".", "i">>
MailB == <<"b", "@", "x", ".", "i">>
Pw == <<"p", "w">>
BadPw == <<"n", "o">>
Leo == <<"l", "e", "o">>

(* An ObjectId, and its 24-digit hexadecimal JSON form. *)
ObjectId(n) == [oid |-> n]
ToHex(o) == <<"hex", o.oid>>
IsHex(s) == Len(s) = 2 /\ s[1] = "hex"
CastObjectId(s) == ObjectId(s[2])

(* bcrypt: the salt is random and stored inside the hash; compare rehashes. *)
BcryptHash(p) == <<"bcrypt", p>>
BcryptCompare(p, h) == h = BcryptHash(p)

----------------------------------------------------------------------------
(* Time *)

StartTime == TicksPerDay
TokenTTL == TicksPerDay
EndTime == StartTime + MaxTicks
TZOffsets == {-1, 0, 1}

----------------------------------------------------------------------------
(* Tokens: jsonwebtoken's sign and verify (HS256) *)

FallbackSecret == <<"f", "b">>
ConfiguredSecret == <<"s", "k">>
AttackerSecret == <<"e", "v">>

(* server.js: const JWT_SECRET = process.env.JWT_SECRET || '...' *)
JWT_SECRET == IF Truthy(env.JWT_SECRET) THEN env.JWT_SECRET ELSE FallbackSecret

Hmac(payload, key) == [p |-> payload, k |-> key]

JwtSign(claims, key, at) ==
    LET payload == [userId |-> claims.userId, username |-> claims.username,
                    exp |-> at + TokenTTL]
    IN  [kind |-> "jwt", payload |-> payload, sig |-> Hmac(payload, key)]

Garbage == [kind |-> "garbage"]

JwtVerifyNoExpiry(token, secret, at) ==
    IF token.kind # "jwt" THEN [ok |-> FALSE]
    ELSE IF ~Truthy(secret) THEN [ok |-> FALSE]
    ELSE IF token.sig # Hmac(token.payload, secret) THEN [ok |-> FALSE]
    ELSE [ok |-> TRUE, decoded |-> token.payload]

(* jwt.verify(token, secret): the decoded payload, or a throw. *)
JwtVerify(token, secret, at) ==
    IF token.kind # "jwt" THEN [ok |-> FALSE]              \* jwt malformed
    ELSE IF ~Truthy(secret) THEN [ok |-> FALSE]            \* secret or public key must be provided
    ELSE IF token.sig # Hmac(token.payload, secret) THEN [ok |-> FALSE]  \* invalid signature
    ELSE IF at >= token.payload.exp THEN [ok |-> FALSE]    \* jwt expired
    ELSE [ok |-> TRUE, decoded |-> token.payload]

----------------------------------------------------------------------------
(* The auth middleware.  A header is the tuple of the parts that            *)
(* split(' ') gives; <<>> is a request without the header.                  *)

NoHeader == <<>>
StartsWithBearer(h) == Len(h) >= 2 /\ h[1] = "Bearer"

Auth(h) ==
    IF h = NoHeader \/ ~StartsWithBearer(h)
    THEN [code |-> 401, msg |-> "Authorization token required"]
    ELSE LET v == JwtVerify(h[2], env.JWT_SECRET, now)
         IN  IF v.ok
             THEN [code |-> 0, user |-> [userId |-> v.decoded.userId,
                                         username |-> v.decoded.username]]
             ELSE [code |-> 401, msg |-> "Invalid token"]

----------------------------------------------------------------------------
(* What a step sends: a response with the context of the request it       *)
(* answers, or NoResp.  A request's context is its authorization header, *)
(* the time the middleware ran, req.user, req.params.id and req.body.    *)

Null == <<>>
NoUser == [userId |-> Null, username |-> Null]
NoReq == [hdr |-> Null, at |-> 0, user |-> NoUser, id |-> Null, body |-> Null]
Resp(route, code, msg, out, req) ==
    [route |-> route, code |-> code, msg |-> msg, out |-> out, req |-> req]
NoResp == Resp("none", 0, "", Null, NoReq)

----------------------------------------------------------------------------
(* server.js: signup and login *)

Get(b, f) == IF f \in DOMAIN b THEN b[f] ELSE Undefined

(* User.findOne({ $or: [{ email }, { username }] }) *)
FindUserByEmailOrUsername(email, username) ==
    {u \in users : u.email = email \/ u.username = username}

(* User.findOne({ username }) *)
FindUserByUsername(username) == {u \in users : u.username = username}

(* The unique indexes of the User schema on username and on email: save()  *)
(* throws a duplicate key error where the collection holds them.           *)
DuplicateKey(user) ==
    \E u \in users : u.username = user.username \/ u.email = user.email

SignupsStarted == BagCardinality(signups) + (nextUserId - 1)

(* app.post('/api/auth/signup'), up to the await of User.findOne and its answer *)
SignupReceive(b) ==
    LET username == Get(b, "username")
        email == Get(b, "email")
        password == Get(b, "password")
        zodiacSign == Get(b, "zodiacSign")
    IN  /\ SignupsStarted < MaxSignups
        /\ IF ~Truthy(username) \/ ~Truthy(email) \/ ~Truthy(password) \/ ~Truthy(zodiacSign)
           THEN /\ res' = Resp("signup", 400, "All fields are required", Null, NoReq)
                /\ UNCHANGED signups
           ELSE IF FindUserByEmailOrUsername(email, username) # {}
           THEN /\ res' = Resp("signup", 400, "User already exists", Null, NoReq)
                /\ UNCHANGED signups
           ELSE /\ signups' = signups (+) SetToBag({b})
                /\ res' = NoResp
        /\ UNCHANGED <<env, now, users, nextUserId, tokens>>
        /\ UNCHANGED apptVars

(* the rest of the signup handler: hash, new User, user.save(), jwt.sign *)
SignupSave(b) ==
    LET user == [_id |-> ObjectId(nextUserId),
                 username |-> b.username,
                 email |-> b.email,
                 password |-> BcryptHash(b.password),
                 zodiacSign |-> b.zodiacSign]
        token == JwtSign([userId |-> ToHex(user._id), username |-> user.username],
                         JWT_SECRET, now)
    IN  /\ BagIn(b, signups)
        /\ signups' = signups (-) SetToBag({b})
        /\ nextUserId' = nextUserId + 1
        /\ IF DuplicateKey(user)
           THEN /\ res' = Resp("signup", 500, "Error creating user", Null, NoReq)
                /\ UNCHANGED <<users, tokens>>
           ELSE /\ users' = users \cup {user}
                /\ tokens' = tokens \cup {token}
                /\ res' = Resp("signup", 201, "User created successfully", token, NoReq)
        /\ UNCHANGED <<env, now>>
        /\ UNCHANGED apptVars

(* app.post('/api/auth/login') *)
Login(b) ==
    LET username == Get(b, "username")
        password == Get(b, "password")
        found == FindUserByUsername(username)
    IN  /\ IF ~Truthy(username) \/ ~Truthy(password)
           THEN /\ res' = Resp("login", 400, "Username and password are required",
                               Null, NoReq)
                /\ UNCHANGED tokens
           ELSE IF found = {}
           THEN /\ res' = Resp("login", 401, "Invalid credentials", Null, NoReq)
                /\ UNCHANGED tokens
           ELSE \E user \in found :
                  IF ~BcryptCompare(password, user.password)
                  THEN /\ res' = Resp("login", 401, "Invalid credentials", Null, NoReq)
                       /\ UNCHANGED tokens
                  ELSE LET token == JwtSign([userId |-> ToHex(user._id),
                                             username |-> user.username],
                                            JWT_SECRET, now)
                       IN  /\ Cardinality(tokens \cup {token}) <= MaxTokens
                           /\ tokens' = tokens \cup {token}
                           /\ res' = Resp("login", 200, "Login successful", token, NoReq)
        /\ UNCHANGED <<env, now, users, signups, nextUserId>>
        /\ UNCHANGED apptVars

(* The clock advances. *)
Tick ==
    /\ now < EndTime
    /\ now' = now + 1
    /\ res' = NoResp
    /\ UNCHANGED <<env, users, signups, nextUserId, tokens>>
    /\ UNCHANGED apptVars

----------------------------------------------------------------------------
(* routes/appointments.js: the create gates *)

FieldNames == {"name", "email", "phone", "date", "time", "astrologer", "consultationType"}

IsSpaceOrAt(c) == c \in {" ", "\t", "\n", "@"}
IsDigit(c) == c \in {"0", "1", "2", "3", "4", "5", "6", "7", "8", "9"}

(* /^[^\s@]+@[^\s@]+\.[^\s@]+$/.test(v) *)
EmailRegexTest(v) ==
    /\ v # Undefined
    /\ \E i \in 1..Len(v), j \in 1..Len(v) :
         /\ 1 < i /\ i + 1 < j /\ j < Len(v)
         /\ v[i] = "@" /\ v[j] = "."
         /\ \A k \in 1..Len(v) : (k # i /\ k # j) => ~IsSpaceOrAt(v[k])

(* /^\d{10}$/.test(v) *)
PhoneRegexTest(v) ==
    /\ v # Undefined
    /\ Len(v) = 10
    /\ \A k \in 1..Len(v) : IsDigit(v[k])

(* The forms of a date string: "YYYY-MM-DD", which new Date() reads as   *)
(* midnight UTC of that day; "YYYY-MM-DDTHH:mm", which it reads as local *)
(* time; anything else gives an Invalid Date.                            *)
DateOnly(d) == <<"date", d>>
LocalDateTime(d, t) == <<"local", d, t>>
NotADate == <<"x">>

(* new Date(v): [valid, t], t the instant in ticks of UTC *)
NewDate(v) ==
    IF Len(v) = 2 /\ v[1] = "date" THEN [valid |-> TRUE, t |-> v[2] * TicksPerDay]
    ELSE IF Len(v) = 3 /\ v[1] = "local"
         THEN [valid |-> TRUE, t |-> v[2] * TicksPerDay + v[3] - env.TZ]
    ELSE [valid |-> FALSE, t |-> 0]

(* today = new Date(); today.setHours(0, 0, 0, 0): local midnight as an instant *)
TodayMidnight == ((now + env.TZ) \div TicksPerDay) * TicksPerDay - env.TZ

(* appointmentDate < today; a comparison with an Invalid Date (NaN) is false *)
DateBeforeToday(v) == NewDate(v).valid /\ NewDate(v).t < TodayMidnight

MissingField(b) == \E f \in FieldNames : ~Truthy(Get(b, f))

MsgMissing == "All fields are required"
MsgEmail == "Invalid email format"
MsgPhone == "Invalid phone number format"
MsgDate == "Please select a future date"

ValidatePhoneFirst(b) ==
    IF MissingField(b) THEN MsgMissing
    ELSE IF ~PhoneRegexTest(Get(b, "phone")) THEN MsgPhone
    ELSE IF ~EmailRegexTest(Get(b, "email")) THEN MsgEmail
    ELSE IF DateBeforeToday(Get(b, "date")) THEN MsgDate
    ELSE ""

(* The gates of router.post('/') in the order of the code: the 400 message, or "" *)
Validate(b) ==
    IF MissingField(b) THEN MsgMissing
    ELSE IF ~EmailRegexTest(Get(b, "email")) THEN MsgEmail
    ELSE IF ~PhoneRegexTest(Get(b, "phone")) THEN MsgPhone
    ELSE IF DateBeforeToday(Get(b, "date")) THEN MsgDate
    ELSE ""

StatusPending == <<"p", "e", "n", "d">>
StatusConfirmed == <<"c", "o", "n", "f">>

SpreadBodyLast(b, user) ==
    [k \in DOMAIN b \cup {"userId", "status"} |->
        IF k \in DOMAIN b THEN b[k]
        ELSE IF k = "userId" THEN user.userId
        ELSE StatusPending]

(* { ...req.body, userId: req.user.userId, status: 'pending' } *)
Spread(b, user) ==
    [k \in DOMAIN b \cup {"userId", "status"} |->
        IF k = "userId" THEN user.userId
        ELSE IF k = "status" THEN StatusPending
        ELSE b[k]]

(* new Appointment(obj): the schema keeps its own fields, casts userId and *)
(* draws the _id                                                           *)
NewAppointment(obj) ==
    [_id |-> ObjectId(nextId),
     userId |-> CastObjectId(obj["userId"]),
     status |-> obj["status"],
     fields |-> [f \in FieldNames |-> obj[f]]]

----------------------------------------------------------------------------
(* routes/appointments.js: the handlers *)

InFlight == BagCardinality(pending)
Send(c) == pending' = pending (+) SetToBag({c})
Take(c) == pending' = pending (-) SetToBag({c})

(* The request as the middleware leaves it: req.user is set when next() is called. *)
Request(h, id, b) ==
    [hdr |-> h, at |-> now, id |-> id, body |-> b,
     user |-> IF Auth(h).code = 0 THEN Auth(h).user ELSE NoUser]

(* router.post('/', auth, ...) up to the await of appointment.save(); the *)
(* model lets a specification book at most limit appointments             *)
ReceiveCreate(h, b, limit) ==
    LET a == Auth(h)
        req == Request(h, Null, b)
    IN  /\ InFlight < MaxPending
        /\ IF a.code # 0
           THEN /\ res' = Resp("create", a.code, a.msg, Null, req)
                /\ UNCHANGED <<pending, nextId>>
           ELSE IF Validate(b) # ""
           THEN /\ res' = Resp("create", 400, Validate(b), Null, req)
                /\ UNCHANGED <<pending, nextId>>
           ELSE /\ nextId <= limit
                /\ Send([op |-> "save", req |-> req,
                         doc |-> NewAppointment(Spread(b, req.user))])
                /\ nextId' = nextId + 1
                /\ res' = NoResp
        /\ UNCHANGED <<env, now, appointments, createdBy, cancelled>>
        /\ UNCHANGED authVars

(* The creation timestamp the Appointment schema stamps on a saved document. *)
CreatedAt == now

(* appointment.save() and the 201 *)
ApplySave(c) ==
    /\ BagIn(c, pending) /\ c.op = "save"
    /\ Take(c)
    /\ LET stored == [_id |-> c.doc._id, userId |-> c.doc.userId, status |-> c.doc.status,
                      fields |-> c.doc.fields, createdAt |-> CreatedAt]
       IN  /\ appointments' = appointments \cup {stored}
           /\ res' = Resp("create", 201, "Appointment booked successfully Thank you!",
                          stored, c.req)
    /\ createdBy' = createdBy @@ (c.doc._id.oid :> c.req.user.userId)
    /\ UNCHANGED <<env, now, nextId, cancelled>>
    /\ UNCHANGED authVars

(* router.get('/my-appointments', auth, ...) up to the await of find().sort() *)
ReceiveList(h) ==
    LET a == Auth(h)
        req == Request(h, Null, Null)
    IN  /\ InFlight < MaxPending
        /\ IF a.code # 0
           THEN /\ res' = Resp("list", a.code, a.msg, Null, req)
                /\ UNCHANGED pending
           ELSE /\ Send([op |-> "find", req |-> req])
                /\ res' = NoResp
        /\ UNCHANGED <<env, now, appointments, nextId, createdBy, cancelled>>
        /\ UNCHANGED authVars

FindByUserAll(userId) == appointments

(* Appointment.find({ userId }) *)
FindByUser(userId) == {x \in appointments : x.userId = CastObjectId(userId)}

(* .sort({ createdAt: -1 }): the orders the sort may give, ties in any order *)
SortNewestFirst(S) ==
    {l \in [1..Cardinality(S) -> S] :
        /\ \A i, j \in 1..Cardinality(S) : i # j => l[i] # l[j]
        /\ \A i, j \in 1..Cardinality(S) : i < j => l[i].createdAt >= l[j].createdAt}

(* Appointment.find(...).sort(...) and the 200 *)
ApplyFind(c) ==
    /\ BagIn(c, pending) /\ c.op = "find"
    /\ Take(c)
    /\ \E l \in SortNewestFirst(FindByUser(c.req.user.userId)) :
         res' = Resp("list", 200, "", l, c.req)
    /\ UNCHANGED <<env, now, appointments, nextId, createdBy, cancelled>>
    /\ UNCHANGED authVars

(* router.patch('/:id', auth, ...) up to the await of findOneAndUpdate *)
ReceivePatch(h, id, b) ==
    LET a == Auth(h)
        req == Request(h, id, b)
    IN  /\ InFlight < MaxPending
        /\ IF a.code # 0
           THEN /\ res' = Resp("patch", a.code, a.msg, Null, req)
                /\ UNCHANGED pending
           ELSE /\ Send([op |-> "update", req |-> req, status |-> Get(b, "status")])
                /\ res' = NoResp
        /\ UNCHANGED <<env, now, appointments, nextId, createdBy, cancelled>>
        /\ UNCHANGED authVars

FindOneAnyOwner(id, userId) == {x \in appointments : x._id = CastObjectId(id)}

(* the filter { _id: id, userId: req.user.userId } *)
FindOne(id, userId) ==
    {x \in appointments : x._id = CastObjectId(id) /\ x.userId = CastObjectId(userId)}

SetStatusFromPending(x, status) ==
    IF status = Undefined \/ x.status # StatusPending THEN x
    ELSE [x EXCEPT !.status = status]

(* { status }: a key whose value is undefined is dropped from the update *)
SetStatus(x, status) == IF status = Undefined THEN x ELSE [x EXCEPT !.status = status]

(* findOneAndUpdate as { new: true, upsert: true } would run it *)
ApplyUpdateUpsert(c) ==
    /\ BagIn(c, pending) /\ c.op = "update"
    /\ Take(c)
    /\ IF ~IsHex(c.req.id)
       THEN /\ res' = Resp("patch", 500, "Error updating appointment", Null, c.req)
            /\ UNCHANGED appointments
       ELSE IF FindOne(c.req.id, c.req.user.userId) = {}
       THEN LET x == [_id |-> CastObjectId(c.req.id),
                      userId |-> CastObjectId(c.req.user.userId),
                      status |-> IF c.status = Undefined THEN StatusPending ELSE c.status,
                      fields |-> [f \in FieldNames |-> Undefined], createdAt |-> now]
            IN  /\ appointments' = appointments \cup {x}
                /\ res' = Resp("patch", 200, "Appointment updated successfully", x, c.req)
       ELSE \E x \in FindOne(c.req.id, c.req.user.userId) :
              /\ appointments' = (appointments \ {x}) \cup {SetStatus(x, c.status)}
              /\ res' = Resp("patch", 200, "Appointment updated successfully",
                             SetStatus(x, c.status), c.req)
    /\ UNCHANGED <<env, now, nextId, createdBy, cancelled>>
    /\ UNCHANGED authVars

(* Appointment.findOneAndUpdate(filter, { status }, { new: true }) and the *)
(* response; an id that is no ObjectId fails the cast of the filter        *)
ApplyUpdate(c) ==
    /\ BagIn(c, pending) /\ c.op = "update"
    /\ Take(c)
    /\ IF ~IsHex(c.req.id)
       THEN /\ res' = Resp("patch", 500, "Error updating appointment", Null, c.req)
            /\ UNCHANGED appointments
       ELSE IF FindOne(c.req.id, c.req.user.userId) = {}
       THEN /\ res' = Resp("patch", 404, "Appointment not found", Null, c.req)
            /\ UNCHANGED appointments
       ELSE \E x \in FindOne(c.req.id, c.req.user.userId) :
              /\ appointments' = (appointments \ {x}) \cup {SetStatus(x, c.status)}
              /\ res' = Resp("patch", 200, "Appointment updated successfully",
                             SetStatus(x, c.status), c.req)
    /\ UNCHANGED <<env, now, nextId, createdBy, cancelled>>
    /\ UNCHANGED authVars

(* router.delete('/:id', auth, ...) up to the await of findOneAndDelete *)
ReceiveDelete(h, id) ==
    LET a == Auth(h)
        req == Request(h, id, Null)
    IN  /\ InFlight < MaxPending
        /\ IF a.code # 0
           THEN /\ res' = Resp("delete", a.code, a.msg, Null, req)
                /\ UNCHANGED pending
           ELSE /\ Send([op |-> "remove", req |-> req])
                /\ res' = NoResp
        /\ UNCHANGED <<env, now, appointments, nextId, createdBy, cancelled>>
        /\ UNCHANGED authVars

(* Appointment.findOneAndDelete(filter) and the response *)
ApplyDelete(c) ==
    /\ BagIn(c, pending) /\ c.op = "remove"
    /\ Take(c)
    /\ IF ~IsHex(c.req.id)
       THEN /\ res' = Resp("delete", 500, "Error cancelling appointment", Null, c.req)
            /\ UNCHANGED <<appointments, cancelled>>
       ELSE IF FindOne(c.req.id, c.req.user.userId) = {}
       THEN /\ res' = Resp("delete", 404, "Appointment not found", Null, c.req)
            /\ UNCHANGED <<appointments, cancelled>>
       ELSE \E x \in FindOne(c.req.id, c.req.user.userId) :
              /\ appointments' = appointments \ {x}
              /\ cancelled' = cancelled \cup {x._id.oid}
              /\ res' = Resp("delete", 200, "Appointment cancelled successfully",
                             Null, c.req)
    /\ UNCHANGED <<env, now, nextId, createdBy>>
    /\ UNCHANGED authVars

----------------------------------------------------------------------------
(* The requests the model sends *)

UserAlice ==
    [_id |-> ObjectId(1), username |-> Alice, email |-> MailA,
     password |-> BcryptHash(Pw), zodiacSign |-> Leo]
UserBob ==
    [_id |-> ObjectId(2), username |-> Bob, email |-> MailB,
     password |-> BcryptHash(Pw), zodiacSign |-> Leo]

SignupBodies ==
    {[username |-> u, email |-> e, password |-> Pw, zodiacSign |-> Leo] :
        u \in {Alice, Bob}, e \in {MailA, MailB}}
    \cup {[username |-> Alice, email |-> MailA, password |-> Pw],
          [username |-> <<>>, email |-> MailA, password |-> Pw, zodiacSign |-> Leo]}

LoginBodies ==
    {[username |-> u, password |-> p] : u \in {Alice, Bob}, p \in {Pw, BadPw}}
    \cup {[username |-> Alice]}

TokenFor(u, key, at) ==
    JwtSign([userId |-> ToHex(u._id), username |-> u.username], key, at)

(* Tokens as a login of an account would return them now. *)
FreshTokens == {TokenFor(u, JWT_SECRET, now) : u \in users}

(* Tokens the gate should refuse, built for the accounts U: one a login    *)
(* would have returned one lifetime ago, one signed with another key, one  *)
(* whose payload names another account than the one it was signed for, and *)
(* noise.                                                                  *)
BadTokens(U) ==
    {TokenFor(u, JWT_SECRET, now - TokenTTL) : u \in U}
    \cup {TokenFor(u, AttackerSecret, now) : u \in U}
    \cup UNION {{[TokenFor(u, JWT_SECRET, now) EXCEPT !.payload.userId = ToHex(v._id)] :
                    v \in users \ {u}} : u \in U}
    \cup {Garbage}

FreshHeaders == {<<"Bearer", t>> : t \in FreshTokens}

(* Headers the gate should refuse. *)
BadHeaders(U) ==
    {NoHeader, <<"Bearer">>}
    \cup {<<"Basic", TokenFor(u, JWT_SECRET, now)>> : u \in U}
    \cup {<<"Bearer", t>> : t \in BadTokens(U)}

(* Every header the model presents: the tokens returned so far as well. *)
Headers(U) == BadHeaders(U) \cup FreshHeaders \cup {<<"Bearer", t>> : t \in tokens}

IdsTo(n) == {ToHex(ObjectId(k)) : k \in 1..n}
NotAnId == <<"z">>

PatchBodies ==
    {[status |-> StatusConfirmed], [status |-> StatusPending], [status |-> <<"z", "z">>],
     [note |-> <<"o">>]}

FarDay == (EndTime \div TicksPerDay) + 2

GoodBody ==
    [name |-> <<"n">>, email |-> MailA, phone |-> Rep("7", 10), date |-> DateOnly(FarDay),
     time |-> <<"t">>, astrologer |-> <<"g">>, consultationType |-> <<"c">>]

Without(b, f) == [k \in DOMAIN b \ {f} |-> b[k]]
With(b, f, v) == [k \in DOMAIN b \cup {f} |-> IF k = f THEN v ELSE b[k]]

(* Bodies for the lifecycle: a good one, one that also carries a status and *)
(* Bob's id, and one that misses a field.                                   *)
LifecycleBodies ==
    {GoodBody, Without(GoodBody, "time")}
    \cup {With(With(GoodBody, "status", StatusConfirmed), "userId", ToHex(UserBob._id))}

(* The calendar day of the server's local clock. *)
LocalDay == (now + env.TZ) \div TicksPerDay

NearDays == {LocalDay - 1, LocalDay, LocalDay + 1}
Dates ==
    {DateOnly(d) : d \in NearDays}
    \cup {LocalDateTime(d, t) : d \in NearDays, t \in {0, TicksPerDay - 1}}
    \cup {NotADate}

BadEmails == {<<"a", "b">>, <<"a", "@", "b">>, <<"a", " ", "@", "x", ".", "i">>,
              <<"@", "x", ".", "i">>, <<"a", "@", "x", ".">>}
BadPhones == {Rep("7", 5), Rep("7", 11), Rep("7", 9) \o <<"a">>}

(* Bodies for the gates of create: every combination of gates passed and *)
(* failed, each malformed value, each field missing or empty.            *)
CreateBodies ==
    {With(With(With(m, "email", e), "phone", p), "date", d) :
        m \in {GoodBody, Without(GoodBody, "name")},
        e \in {MailA, <<"a", "b">>}, p \in {Rep("7", 10), Rep("7", 5)}, d \in Dates}
    \cup {With(GoodBody, "email", e) : e \in BadEmails}
    \cup {With(GoodBody, "phone", p) : p \in BadPhones}
    \cup {Without(GoodBody, f) : f \in FieldNames}
    \cup {With(GoodBody, f, <<>>) : f \in FieldNames}

----------------------------------------------------------------------------
(* Initial states and specifications *)

Envs == [JWT_SECRET : {Undefined, ConfiguredSecret}, TZ : TZOffsets]

InitRest ==
    /\ signups = EmptyBag
    /\ tokens = {}
    /\ appointments = {}
    /\ pending = EmptyBag
    /\ nextId = 1
    /\ res = NoResp
    /\ createdBy = <<>>
    /\ cancelled = {}

(* A fresh database; the server runs in UTC. *)
InitAuth ==
    /\ env \in {e \in Envs : e.TZ = 0}
    /\ now = StartTime
    /\ users = {}
    /\ nextUserId = 1
    /\ InitRest

(* A database that holds the accounts of two signups; the server runs in UTC. *)
Init ==
    /\ env \in {e \in Envs : e.TZ = 0}
    /\ now = StartTime
    /\ users = {UserAlice, UserBob}
    /\ nextUserId = 3
    /\ InitRest

(* The same database, a server in any timezone, started at any time. *)
InitCreate ==
    /\ env \in Envs
    /\ now \in StartTime..EndTime
    /\ users = {UserAlice, UserBob}
    /\ nextUserId = 3
    /\ InitRest

Commands == BagToSet(pending)
Idle == pending = EmptyBag

(* The response has left the server; the next step starts from a clean slate. *)
Quiet == res = NoResp
Deliver ==
    /\ ~Quiet
    /\ res' = NoResp
    /\ UNCHANGED <<env, now>>
    /\ UNCHANGED authVars
    /\ UNCHANGED apptVars

(* Signups and logins in any interleaving, and the list route behind the gate. *)
NextAuth ==
    \/ Deliver
    \/ Quiet /\ \E b \in SignupBodies : SignupReceive(b)
    \/ Quiet /\ \E b \in BagToSet(signups) : SignupSave(b)
    \/ Quiet /\ \E b \in LoginBodies : Login(b)
    \/ Quiet /\ \E h \in Headers(users) : Idle /\ ReceiveList(h)
    \/ Quiet /\ \E c \in Commands : ApplyFind(c)
    \/ Quiet /\ Tick

(* The requests of the lifecycle: every request of the two accounts on the *)
(* appointments' ids, each route under each header the gate should refuse, *)
(* and an update and a cancel with an id that is none.                     *)
Refused == BadHeaders({UserAlice})
AliceHeader == <<"Bearer", TokenFor(UserAlice, JWT_SECRET, now)>>
AllIds == IdsTo(MaxAppointments)

(* The appointments router, one request at a time. *)
Next ==
    \/ Deliver
    \/ Quiet /\ \E h \in FreshHeaders, b \in LifecycleBodies : Idle /\ ReceiveCreate(h, b, MaxAppointments)
    \/ Quiet /\ \E h \in Refused : Idle /\ ReceiveCreate(h, GoodBody, MaxAppointments)
    \/ Quiet /\ \E c \in Commands : ApplySave(c)
    \/ Quiet /\ \E h \in FreshHeaders \cup Refused : Idle /\ ReceiveList(h)
    \/ Quiet /\ \E c \in Commands : ApplyFind(c)
    \/ Quiet /\ \E h \in FreshHeaders, id \in AllIds, b \in PatchBodies : Idle /\ ReceivePatch(h, id, b)
    \/ Quiet /\ \E h \in Refused : Idle /\ ReceivePatch(h, ToHex(ObjectId(1)), [status |-> StatusConfirmed])
    \/ Quiet /\ Idle /\ ReceivePatch(AliceHeader, NotAnId, [status |-> StatusConfirmed])
    \/ Quiet /\ \E c \in Commands : ApplyUpdate(c)
    \/ Quiet /\ \E h \in FreshHeaders, id \in AllIds : Idle /\ ReceiveDelete(h, id)
    \/ Quiet /\ \E h \in Refused : Idle /\ ReceiveDelete(h, ToHex(ObjectId(1)))
    \/ Quiet /\ Idle /\ ReceiveDelete(AliceHeader, NotAnId)
    \/ Quiet /\ \E c \in Commands : ApplyDelete(c)
    \/ Quiet /\ Idle /\ Tick

(* Updates and cancels of both users in flight together on the appointments *)
(* that one request at a time has booked.                                   *)
NextRace ==
    \/ Deliver
    \/ Quiet /\ \E h \in FreshHeaders : Idle /\ ReceiveCreate(h, GoodBody, MaxRaced)
    \/ Quiet /\ \E c \in Commands : ApplySave(c)
    \/ Quiet /\ \E h \in FreshHeaders, id \in IdsTo(MaxRaced), b \in PatchBodies : ReceivePatch(h, id, b)
    \/ Quiet /\ \E c \in Commands : ApplyUpdate(c)
    \/ Quiet /\ \E h \in FreshHeaders, id \in IdsTo(MaxRaced) : ReceiveDelete(h, id)
    \/ Quiet /\ \E c \in Commands : ApplyDelete(c)

(* The create route alone, one request at a time. *)
GateRequests ==
    ({<<"Bearer", TokenFor(UserAlice, JWT_SECRET, now)>>} \X CreateBodies)
    \cup ({NoHeader} \X {GoodBody})

NextCreate ==
    \/ Deliver
    \/ Quiet /\ \E r \in GateRequests : Idle /\ ReceiveCreate(r[1], r[2], MaxGateBookings)
    \/ Quiet /\ \E c \in Commands : ApplySave(c)

Spec == Init /\ [][Next]_vars
SpecAuth == InitAuth /\ [][NextAuth]_vars
SpecRace == Init /\ [][NextRace]_vars
SpecCreate == InitCreate /\ [][NextCreate]_vars

----------------------------------------------------------------------------
(* The properties checked *)

(* C1.  For an appointment that is stored, an update or a cancel asked by  *)
(* another identity than the one that created it is answered 404 and the   *)
(* collection stays as it was; asked by its creator it is answered 200.    *)
C1_OwnerScoped ==
    [][\A c \in Commands :
         (/\ c.op \in {"update", "remove"}
          /\ IsHex(c.req.id)
          /\ ApplyUpdate(c) \/ ApplyDelete(c)) =>
            \A x \in {y \in appointments : y._id = CastObjectId(c.req.id)} :
               IF createdBy[x._id.oid] = c.req.user.userId
               THEN res'.code = 200
               ELSE res'.code = 404 /\ appointments' = appointments]_vars

(* Another user's update or cancel has just been answered 404 while the appointment is stored. *)
C1_Refused ==
    /\ res.route \in {"patch", "delete"}
    /\ res.code = 404
    /\ IsHex(res.req.id)
    /\ \E x \in appointments :
         /\ x._id = CastObjectId(res.req.id)
         /\ createdBy[x._id.oid] # res.req.user.userId

(* C2.  A request to create, list, update or cancel without a header, with *)
(* a header of another scheme, or with a token that is malformed, not      *)
(* signed with the issuing secret or past its expiry is answered 401       *)
(* without an identity, and the step that answers 401 neither changes the  *)
(* collection nor sends a storage command.                                 *)
C2_GateFirst ==
    /\ [](res.route \in {"create", "list", "patch", "delete"} =>
            LET h == res.req.hdr
                refused == \/ h = NoHeader
                           \/ h[1] # "Bearer"
                           \/ Len(h) < 2
                           \/ h[2].kind # "jwt"
                           \/ h[2].sig # Hmac(h[2].payload, JWT_SECRET)
                           \/ res.req.at >= h[2].payload.exp
            IN  refused => res.code = 401 /\ res.req.user = NoUser /\ res.out = Null)
    /\ [][(res'.route \in {"create", "list", "patch", "delete"} /\ res'.code = 401) =>
            UNCHANGED apptVars]_vars

(* A cancel under a token past its expiry has been answered 401 while its target is stored. *)
C2_Refused ==
    /\ res.route = "delete"
    /\ res.code = 401
    /\ Len(res.req.hdr) = 2
    /\ res.req.hdr[2].kind = "jwt"
    /\ res.req.at >= res.req.hdr[2].payload.exp
    /\ \E x \in appointments : x._id = CastObjectId(res.req.id)

(* C3.  A request to a protected route under a token that a signup or a    *)
(* login returned, received before the token's expiry, passes the gate     *)
(* with the userId and the username of the token, whether the secret is    *)
(* configured or not.                                                      *)
C3_RoundTrip ==
    (/\ res.route = "list"
     /\ Len(res.req.hdr) = 2
     /\ res.req.hdr[1] = "Bearer"
     /\ res.req.hdr[2].kind = "jwt"
     /\ res.req.hdr[2] \in tokens
     /\ res.req.at < res.req.hdr[2].payload.exp) =>
        /\ res.code = 200
        /\ res.req.user = [userId |-> res.req.hdr[2].payload.userId,
                           username |-> res.req.hdr[2].payload.username]

(* C4.  No two users share a username or an email, and a signup is         *)
(* answered either 201 or, when it fails, 400.                             *)
C4_SignupUnique ==
    /\ \A u, v \in users : u # v => u.username # v.username /\ u.email # v.email
    /\ res.route = "signup" => res.code \in {201, 400}

(* C5.  A create that passes the credential gate is answered by the first  *)
(* gate its body fails, in the order presence, email, phone, date, and by  *)
(* 201 when it fails none; the step that answers 400 neither changes the   *)
(* collection nor sends a storage command.                                 *)
C5_GateOrder ==
    /\ [](res.route = "create" /\ res.code # 401 =>
            LET b == res.req.body
                fails == <<MissingField(b),
                           ~EmailRegexTest(Get(b, "email")),
                           ~PhoneRegexTest(Get(b, "phone")),
                           DateBeforeToday(Get(b, "date"))>>
                msgs == <<MsgMissing, MsgEmail, MsgPhone, MsgDate>>
                failing == {i \in 1..4 : fails[i]}
            IN  IF failing = {}
                THEN res.code = 201
                ELSE /\ res.code = 400
                     /\ res.msg = msgs[CHOOSE i \in failing : \A j \in failing : i <= j])
    /\ [][(res'.route = "create" /\ res'.code = 400) => UNCHANGED apptVars]_vars

(* A body that fails the email, the phone and the date gate at once has been answered by the email gate. *)
C5_FirstOfThree ==
    /\ res.route = "create"
    /\ res.code = 400
    /\ res.msg = MsgEmail
    /\ ~PhoneRegexTest(Get(res.req.body, "phone"))
    /\ DateBeforeToday(Get(res.req.body, "date"))

(* C6.  A create whose body passes the presence, email and phone gates and *)
(* whose date names a calendar day is refused with the date message        *)
(* exactly when that day is before the day of the server's clock.          *)
C6_CalendarDay ==
    (res.route = "create" /\ res.code # 401) =>
        LET b == res.req.body
            d == Get(b, "date")
        IN  (/\ ~MissingField(b)
             /\ EmailRegexTest(Get(b, "email"))
             /\ PhoneRegexTest(Get(b, "phone"))
             /\ d # NotADate) =>
                ((res.code = 400 /\ res.msg = MsgDate) <=> d[2] < LocalDay)

(* C7.  The appointment a create stores and returns has the status pending *)
(* and the userId the gate attached to the request, whatever the body      *)
(* carries; every stored appointment has the userId of the identity whose  *)
(* request created it.                                                     *)
C7_StoredIdentity ==
    /\ \A a \in appointments : a.userId = CastObjectId(createdBy[a._id.oid])
    /\ (res.route = "create" /\ res.code = 201) =>
          /\ res.out \in appointments
          /\ res.out.status = StatusPending
          /\ res.out.userId = CastObjectId(res.req.user.userId)

(* A create whose body carries a status and another user's id has been answered 201. *)
C7_BodyOverridden ==
    /\ res.route = "create"
    /\ res.code = 201
    /\ "status" \in DOMAIN res.req.body
    /\ res.req.body["status"] # StatusPending
    /\ "userId" \in DOMAIN res.req.body
    /\ res.req.body["userId"] # res.req.user.userId

(* C8.  The list a user gets holds exactly the appointments that user      *)
(* created and that no cancel has deleted, each once and as it is stored,  *)
(* in an order of non-increasing creation time; it is answered 200, with   *)
(* the empty list when there are none.                                     *)
C8_ListForOwner ==
    (res.route = "list" /\ res.code # 401) =>
        LET l == res.out
            u == res.req.user.userId
            mine == {n \in DOMAIN createdBy : createdBy[n] = u /\ n \notin cancelled}
        IN  /\ res.code = 200
            /\ Len(l) = Cardinality(mine)
            /\ {l[i]._id.oid : i \in 1..Len(l)} = mine
            /\ \A i \in 1..Len(l) : l[i] \in appointments
            /\ \A i, j \in 1..Len(l) : i < j => l[i].createdAt >= l[j].createdAt

(* A list of two appointments created at different times has been returned. *)
C8_TwoNewestFirst ==
    /\ res.route = "list"
    /\ res.code = 200
    /\ Len(res.out) = 2
    /\ res.out[1].createdAt > res.out[2].createdAt

(* C9.  An update answered 200 whose body carries a status leaves the      *)
(* target with that status, whatever its status was, and with every other  *)
(* field as it was, and leaves every other appointment as it was; an       *)
(* update answered 404 leaves the collection as it was.                    *)
C9_StatusOnly ==
    [][\A c \in Commands :
         (c.op = "update" /\ ApplyUpdate(c)) =>
            /\ res'.code = 404 => appointments' = appointments
            /\ (res'.code = 200 /\ "status" \in DOMAIN c.req.body) =>
                 /\ Cardinality(appointments') = Cardinality(appointments)
                 /\ \A y \in appointments :
                      y._id # CastObjectId(c.req.id) => y \in appointments'
                 /\ \E x \in appointments, z \in appointments' :
                      /\ x._id = CastObjectId(c.req.id)
                      /\ z._id = x._id
                      /\ z.status = c.req.body["status"]
                      /\ z.userId = x.userId
                      /\ z.fields = x.fields
                      /\ z.createdAt = x.createdAt
                      /\ res'.out = z]_vars

(* An update has set one of two stored appointments back to pending. *)
C9_Overwritten ==
    /\ res.route = "patch"
    /\ res.code = 200
    /\ res.req.body = [status |-> StatusPending]
    /\ res.out.status = StatusPending
    /\ \E y \in appointments : y._id # res.out._id /\ y.status = StatusConfirmed

(* C10.  With updates and cancels of the owner in flight together: a       *)
(* cancel of an appointment is answered 200 when no cancel has deleted it  *)
(* and 404 when one has; an update applied after the cancel is answered    *)
(* 404; no cancelled appointment is stored again; and an update answered   *)
(* 200 leaves the status its body carries, so the last applied one stays.  *)
C10_Race ==
    /\ [](\A a \in appointments : a._id.oid \notin cancelled)
    /\ [][\A c \in Commands :
            LET n == CastObjectId(c.req.id).oid
                owner == n \in DOMAIN createdBy /\ createdBy[n] = c.req.user.userId
            IN  /\ (c.op = "remove" /\ ApplyDelete(c) /\ owner) =>
                     /\ res'.code = IF n \in cancelled THEN 404 ELSE 200
                     /\ n \in cancelled'
                /\ (c.op = "update" /\ ApplyUpdate(c) /\ owner) =>
                     IF n \in cancelled
                     THEN res'.code = 404 /\ appointments' = appointments
                     ELSE /\ res'.code = 200
                          /\ "status" \in DOMAIN c.req.body =>
                               \E z \in appointments' :
                                  z._id.oid = n /\ z.status = c.req.body["status"]]_vars

(* The owner's cancel has been answered 200 while the owner's other cancel *)
(* and update of the same appointment are still in flight.                 *)
C10_Raced ==
    /\ res.route = "delete"
    /\ res.code = 200
    /\ \E c \in Commands :
         /\ c.op \in {"remove", "update"}
         /\ c.req.id = res.req.id
         /\ c.req.user = res.req.user

====
